---------------------------- MODULE Spec2Model ----------------------------
(***************************************************************************)
(* Availability and slot scheduling engine of health-first-server.         *)
(*                                                                         *)
(* Modelled from app/services/availability_service.py (AvailabilityService)*)
(* and app/services/availability_repository.py (SQLAvailabilityRepository, *)
(* the repository selected by the default DATABASE_TYPE), with provider    *)
(* sign-in from app/services/auth_service.py (AuthService).                *)
(*                                                                         *)
(* Encoding of values                                                      *)
(*   - a wall-clock time "HH:MM" (the String(5) column, the str the        *)
(*     service splits on ':') is the pair <<hour, minute>>;                *)
(*   - a calendar date is its day ordinal, 1 = 2024-01-01; 0 is None;      *)
(*   - an instant (slot_start_time, slot_end_time) is the number of minutes*)
(*     since 2024-01-01 00:00 UTC;                                         *)
(*   - None for a string-valued field is the string "none";                *)
(*   - ids of windows are 1, 2, ... in creation order (uuid4 in the code:  *)
(*     fresh, never reused); the id of a slot is <<window id, k>>, k the   *)
(*     position at which the generator emitted it.                         *)
(***************************************************************************)
EXTENDS Integers, Sequences, FiniteSets, TLC

VARIABLES
    windows,    \* provider_availability table: id -> row
    slots,      \* appointment_slots table: slot id -> row
    nextId,     \* number of windows inserted so far (next fresh id - 1)
    last,       \* the last call that returned, with its arguments and its result
                \* (kept when calls run one at a time)
    procs,      \* concurrent workers: each one's position inside a service call
    pure        \* the last call of a pure helper: arguments and result

vars == <<windows, slots, nextId, last, procs, pure>>

-----------------------------------------------------------------------------
(* Bounds of the model *)

\* windows inserted over a whole behaviour
MaxWindows == 2
\* loop iterations of the slot generator followed before giving up
MaxIter == 8

-----------------------------------------------------------------------------
(* Values *)

NoDate == 0
NoneStr == "none"

\* registered providers (provider_repository.get_provider_by_id finds them)
Providers == {"p1", "p2"}
\* a provider id no provider row has
UnknownProvider == "p0"
Patients == {"pt1", "pt2"}

SlotStatus == {"available", "booked", "cancelled", "blocked"}
AvailabilityStatus == {"available", "booked", "cancelled", "blocked", "maintenance"}
RecurrencePattern == {"daily", "weekly", "monthly"}

\* 2024-03-10 and 2024-11-03 as day ordinals: the days America/New_York
\* changes its offset, at 02:00 local time
DstBegins == 70
DstEnds == 308

\* utcoffset, in minutes, of the wall-clock time t of day d as tz.localize gives
\* it (is_dst = False: a time the change skips or repeats gets standard time).
\* The rule is that of 2024, the year of the New York dates of the model.
TzOffset(tz, d, t) ==
    CASE tz = "UTC" -> 0
      [] tz = "Asia/Kolkata" -> 330
      [] tz = "America/New_York" ->
             IF /\ (d > DstBegins \/ (d = DstBegins /\ t[1] >= 3))
                /\ (d < DstEnds \/ (d = DstEnds /\ t[1] < 1))
             THEN 0 - 240
             ELSE 0 - 300

-----------------------------------------------------------------------------
(* Pure helpers of the service *)

\* time_to_minutes: hour, minute = map(int, time_str.split(':'))
time_to_minutes(t) == t[1] * 60 + t[2]

\* a mutant: the second comparison made non-strict
CheckTimeOverlapClosed(start1, end1, start2, end2) ==
    /\ time_to_minutes(start1) < time_to_minutes(end2)
    /\ time_to_minutes(start2) <= time_to_minutes(end1)

\* _check_time_overlap
CheckTimeOverlap(start1, end1, start2, end2) ==
    LET start1_min == time_to_minutes(start1)
        end1_min == time_to_minutes(end1)
        start2_min == time_to_minutes(start2)
        end2_min == time_to_minutes(end2)
    IN  start1_min < end2_min /\ start2_min < end1_min

\* tz.localize(datetime.combine(base_date, time(h, m))) as an absolute instant
Localize(d, t, tz) == (d - 1) * 1440 + time_to_minutes(t) - TzOffset(tz, d, t)

\* The while loop of _generate_appointment_slots from the cursor current_time:
\* the slots it emits, in order, as <<slot_start_time, slot_end_time>>.  fuel
\* counts the iterations still followed; with fuel exhausted the loop is cut.
RECURSIVE SlotLoop(_, _, _, _, _)
SlotLoop(current_time, end_datetime, slot_duration, break_duration, fuel) ==
    IF fuel = 0 \/ ~(current_time + slot_duration <= end_datetime)
    THEN <<>>
    ELSE LET slot_end_time == current_time + slot_duration
         IN  <<[slot_start_time |-> current_time, slot_end_time |-> slot_end_time]>>
             \o SlotLoop(slot_end_time + break_duration, end_datetime,
                         slot_duration, break_duration, fuel - 1)

\* the cursor after the iterations SlotLoop followed
RECURSIVE SlotCursor(_, _, _, _, _)
SlotCursor(current_time, end_datetime, slot_duration, break_duration, fuel) ==
    IF fuel = 0 \/ ~(current_time + slot_duration <= end_datetime)
    THEN current_time
    ELSE SlotCursor(current_time + slot_duration + break_duration, end_datetime,
                    slot_duration, break_duration, fuel - 1)

\* a mutant: the loop test made strict, so a slot ending at end_time is dropped
GeneratedSlotsStrict(data) ==
    LET s == Localize(data.date, data.start_time, data.timezone)
        e == Localize(data.date, data.end_time, data.timezone)
    IN  SlotLoop(s, e - 1, data.slot_duration, data.break_duration, MaxIter)

\* the slot batch _generate_appointment_slots emits for a request
GeneratedSlots(data) ==
    LET start_datetime == Localize(data.date, data.start_time, data.timezone)
        end_datetime == Localize(data.date, data.end_time, data.timezone)
    IN  SlotLoop(start_datetime, end_datetime, data.slot_duration,
                 data.break_duration, MaxIter)

\* whether the loop is still running after MaxIter iterations
GenerationCut(data) ==
    LET start_datetime == Localize(data.date, data.start_time, data.timezone)
        end_datetime == Localize(data.date, data.end_time, data.timezone)
        cur == SlotCursor(start_datetime, end_datetime, data.slot_duration,
                          data.break_duration, MaxIter)
    IN  cur + data.slot_duration <= end_datetime

-----------------------------------------------------------------------------
(* The store and the repository (SQLAvailabilityRepository).  Every repository
   method opens its own session and commits: one call is one transaction. *)

\* a store value: the two tables and the count of windows inserted
Store(ws, sl, n) == [windows |-> ws, slots |-> sl, nextId |-> n]

Remove(f, ks) == [k \in DOMAIN f \ ks |-> f[k]]

\* ORDER BY on a String(5) column compares "HH:MM" strings character by
\* character: the hour field first, then the minute field
TimeStrLess(a, b) == a[1] < b[1] \/ (a[1] = b[1] /\ a[2] < b[2])

\* whether row i comes before row j under ORDER BY date, start_time.  Rows equal
\* on both keys come in an order SQL leaves open: tie chooses it.
AvailabilityBefore(ws, i, j, tie) ==
    \/ ws[i].date < ws[j].date
    \/ ws[i].date = ws[j].date /\ TimeStrLess(ws[i].start_time, ws[j].start_time)
    \/ /\ ws[i].date = ws[j].date
       /\ ws[i].start_time = ws[j].start_time
       /\ IF tie = "asc" THEN i < j ELSE j < i

RECURSIVE OrderedIds(_, _, _)
OrderedIds(ws, ids, tie) ==
    IF ids = {} THEN <<>>
    ELSE LET first == CHOOSE i \in ids :
                          \A j \in ids \ {i} : AvailabilityBefore(ws, i, j, tie)
         IN  <<first>> \o OrderedIds(ws, ids \ {first}, tie)

\* a mutant: the query leaves out the rows whose status is not available
GetProviderAvailabilityActive(ws, provider_id, start_date, end_date, tie) ==
    OrderedIds(ws, {i \in DOMAIN ws : /\ ws[i].provider_id = provider_id
                                      /\ ws[i].status = "available"
                                      /\ ws[i].date >= start_date
                                      /\ ws[i].date <= end_date}, tie)

\* get_provider_availability: the ids of the provider's rows in the date range,
\* in the order the query returns them
GetProviderAvailability(ws, provider_id, start_date, end_date, tie) ==
    OrderedIds(ws, {i \in DOMAIN ws : /\ ws[i].provider_id = provider_id
                                      /\ ws[i].date >= start_date
                                      /\ ws[i].date <= end_date}, tie)

\* get_appointment_slots: the slot ids of one window
GetAppointmentSlots(sl, availability_id) ==
    {k \in DOMAIN sl : sl[k].availability_id = availability_id}

\* whether slot i comes before slot j under ORDER BY slot_start_time; slots that
\* start at the same instant come in an order SQL leaves open: tie chooses it
SlotBefore(sl, i, j, tie) ==
    \/ sl[i].slot_start_time < sl[j].slot_start_time
    \/ /\ sl[i].slot_start_time = sl[j].slot_start_time
       /\ LET lower == i[1] < j[1] \/ (i[1] = j[1] /\ i[2] < j[2])
          IN  IF tie = "asc" THEN lower ELSE ~lower

RECURSIVE OrderedSlots(_, _, _)
OrderedSlots(sl, ids, tie) ==
    IF ids = {} THEN <<>>
    ELSE LET first == CHOOSE i \in ids :
                          \A j \in ids \ {i} : SlotBefore(sl, i, j, tie)
         IN  <<first>> \o OrderedSlots(sl, ids \ {first}, tie)

\* datetime.combine(start_date, datetime.min.time()) and
\* datetime.combine(end_date, datetime.max.time()) on the scale of the stored
\* instants; the last minute of end_date is inside the range
DayStart(d) == (d - 1) * 1440
DayEnd(d) == (d - 1) * 1440 + 1439

\* a mutant: the status filter lets through every slot that is not booked
GetAvailableSlotsNotBooked(sl, provider_id, start_date, end_date, tie) ==
    OrderedSlots(sl, {k \in DOMAIN sl :
                         /\ sl[k].provider_id = provider_id
                         /\ sl[k].status # "booked"
                         /\ start_date # NoDate => sl[k].slot_start_time >= DayStart(start_date)
                         /\ end_date # NoDate => sl[k].slot_start_time <= DayEnd(end_date)},
                 tie)

\* repository.get_available_slots: the ids of the provider's available slots
\* that start in the date range, in the order the query returns them
GetAvailableSlots(sl, provider_id, start_date, end_date, tie) ==
    OrderedSlots(sl, {k \in DOMAIN sl :
                         /\ sl[k].provider_id = provider_id
                         /\ sl[k].status = "available"
                         /\ start_date # NoDate => sl[k].slot_start_time >= DayStart(start_date)
                         /\ end_date # NoDate => sl[k].slot_start_time <= DayEnd(end_date)},
                 tie)

\* a mutant: the insert is refused (the store is left as it is) when a row of
\* the same provider and date overlaps the new one, as under an exclusion
\* constraint
RepoCreateAvailabilityIfFree(st, row) ==
    IF \E i \in DOMAIN st.windows :
           /\ st.windows[i].provider_id = row.provider_id
           /\ st.windows[i].date = row.date
           /\ CheckTimeOverlap(row.start_time, row.end_time,
                               st.windows[i].start_time, st.windows[i].end_time)
    THEN st
    ELSE Store(st.windows @@ ((st.nextId + 1) :> row), st.slots, st.nextId + 1)

\* repository.create_availability: insert the row under a fresh id
RepoCreateAvailability(st, row) ==
    Store(st.windows @@ ((st.nextId + 1) :> row), st.slots, st.nextId + 1)

\* repository.create_appointment_slot
RepoCreateAppointmentSlot(st, slot_id, row) ==
    Store(st.windows, st.slots @@ (slot_id :> row), st.nextId)

\* a mutant: the window row is deleted and its slots are left behind
RepoDeleteAvailabilityNoCascade(st, availability_id) ==
    Store(Remove(st.windows, {availability_id}), st.slots, st.nextId)

\* repository.delete_availability: the slots of the window, then the window,
\* in one session
RepoDeleteAvailability(st, availability_id) ==
    Store(Remove(st.windows, {availability_id}),
          Remove(st.slots, GetAppointmentSlots(st.slots, availability_id)),
          st.nextId)

\* a mutant: the update also puts the window back to status available
RepoUpdateAvailabilityResetStatus(st, availability_id, update_dict) ==
    Store([st.windows EXCEPT ![availability_id] =
              [f \in DOMAIN @ |-> IF f \in DOMAIN update_dict THEN update_dict[f]
                                  ELSE IF f = "status" THEN "available" ELSE @[f]]],
          st.slots, st.nextId)

\* repository.update_availability: setattr for every key of update_data
RepoUpdateAvailability(st, availability_id, update_dict) ==
    Store([st.windows EXCEPT ![availability_id] =
              [f \in DOMAIN @ |-> IF f \in DOMAIN update_dict
                                  THEN update_dict[f] ELSE @[f]]],
          st.slots, st.nextId)

\* a mutant: a slot whose status is made cancelled is deleted from the table
RepoUpdateSlotStatusDropCancelled(st, slot_id, status, patient_id) ==
    IF status = "cancelled"
    THEN Store(st.windows, Remove(st.slots, {slot_id}), st.nextId)
    ELSE Store(st.windows,
               [st.slots EXCEPT ![slot_id] =
                   [@ EXCEPT !.status = status,
                             !.patient_id = IF patient_id # NoneStr THEN patient_id ELSE @,
                             !.booked_at = IF patient_id # NoneStr THEN 1 ELSE @]],
               st.nextId)

\* repository.update_slot_status on an existing slot
RepoUpdateSlotStatus(st, slot_id, status, patient_id) ==
    Store(st.windows,
          [st.slots EXCEPT ![slot_id] =
              [@ EXCEPT !.status = status,
                        !.patient_id = IF patient_id # NoneStr THEN patient_id ELSE @,
                        !.booked_at = IF patient_id # NoneStr THEN 1 ELSE @]],
          st.nextId)

-----------------------------------------------------------------------------
(* Recurrence dates.  Dates are day ordinals, 1 = 2024-01-01. *)

IsLeap(y) == y % 4 = 0 /\ (y % 100 # 0 \/ y % 400 = 0)

DaysInMonth(y, m) ==
    IF m = 2 THEN (IF IsLeap(y) THEN 29 ELSE 28)
    ELSE IF m \in {4, 6, 9, 11} THEN 30 ELSE 31

DaysInYear(y) == IF IsLeap(y) THEN 366 ELSE 365

\* <<year, month, day>> of a day ordinal
RECURSIVE YmdFrom(_, _, _)
YmdFrom(y, m, n) ==
    IF n > DaysInMonth(y, m)
    THEN IF m = 12 THEN YmdFrom(y + 1, 1, n - DaysInMonth(y, m))
                   ELSE YmdFrom(y, m + 1, n - DaysInMonth(y, m))
    ELSE <<y, m, n>>

Ymd(d) == YmdFrom(2024, 1, d)

\* the day ordinal of <<year, month, day>>
RECURSIVE DaysBefore(_, _)
DaysBefore(y, m) ==
    IF y = 2024 /\ m = 1 THEN 0
    ELSE IF m = 1 THEN DaysBefore(y - 1, 12) + DaysInMonth(y - 1, 12)
                  ELSE DaysBefore(y, m - 1) + DaysInMonth(y, m - 1)

Ordinal(ymd) == DaysBefore(ymd[1], ymd[2]) + ymd[3]

Min(a, b) == IF a < b THEN a ELSE b

\* date + relativedelta(months=1): the next month, the day clamped to its length
AddMonth(d) ==
    LET ymd == Ymd(d)
        y == IF ymd[2] = 12 THEN ymd[1] + 1 ELSE ymd[1]
        m == IF ymd[2] = 12 THEN 1 ELSE ymd[2] + 1
    IN  Ordinal(<<y, m, Min(ymd[3], DaysInMonth(y, m))>>)

\* a mutant: the monthly step made thirty days
NextOccurrenceThirtyDays(current_date, pattern) ==
    CASE pattern = "daily" -> current_date + 1
      [] pattern = "weekly" -> current_date + 7
      [] pattern = "monthly" -> current_date + 30
      [] OTHER -> current_date

\* a mutant: the weekly step made a fortnight
NextOccurrenceFortnight(current_date, pattern) ==
    CASE pattern = "daily" -> current_date + 1
      [] pattern = "weekly" -> current_date + 14
      [] pattern = "monthly" -> AddMonth(current_date)
      [] OTHER -> current_date

\* the "Calculate next occurrence" step of _create_recurring_availability
NextOccurrence(current_date, pattern) ==
    CASE pattern = "daily" -> current_date + 1
      [] pattern = "weekly" -> current_date + 7
      [] pattern = "monthly" -> AddMonth(current_date)
      [] OTHER -> current_date

-----------------------------------------------------------------------------
(* The service (AvailabilityService).

   fault names the repository call of a create_availability that raises:
   0 none, -1 repository.create_availability, k >= 1 the k-th
   repository.create_appointment_slot of the window, -(n + 1) for n >= 1 the
   repository.create_availability of the n-th occurrence of the recurrence.

   A result carries, besides what the caller gets, three observations of the
   call: raised (a repository call made during it raised), depth (how deep
   create_availability was called from inside itself) and occurrences (the
   dates _create_recurring_availability handed to create_availability, in
   order, each with the success flag it got back). *)

NoFault == 0
InsertFault == 0 - 1
OccurrenceFault(n) == 0 - (n + 1)

\* what a service call returns, with the store it leaves
Result(st, ok, code) ==
    [st |-> st, ok |-> ok, error_code |-> code, availability_id |-> 0,
     conflicting_availability_id |-> 0, slots_created |-> 0,
     recurring_slots_created |-> 0, booked_slots_count |-> 0,
     deleted_slots_count |-> 0, raised |-> FALSE, depth |-> 0,
     occurrences |-> <<>>]

\* availability_dict of create_availability
AvailabilityDict(provider_id, data) ==
    [provider_id |-> provider_id,
     date |-> data.date,
     start_time |-> data.start_time,
     end_time |-> data.end_time,
     timezone |-> data.timezone,
     is_recurring |-> data.is_recurring,
     recurrence_pattern |-> data.recurrence_pattern,
     recurrence_end_date |-> data.recurrence_end_date,
     slot_duration |-> data.slot_duration,
     break_duration |-> data.break_duration,
     max_appointments_per_slot |-> data.max_appointments_per_slot,
     current_appointments |-> 0,
     status |-> "available"]

\* slot_data of _generate_appointment_slots
SlotData(availability_id, provider_id, s) ==
    [availability_id |-> availability_id,
     provider_id |-> provider_id,
     patient_id |-> NoneStr,
     slot_start_time |-> s.slot_start_time,
     slot_end_time |-> s.slot_end_time,
     status |-> "available",
     booked_at |-> 0]

\* the store after the first n slots of the batch are inserted
RECURSIVE InsertSlots(_, _, _, _, _)
InsertSlots(st, availability_id, provider_id, batch, n) ==
    IF n = 0 THEN st
    ELSE RepoCreateAppointmentSlot(
             InsertSlots(st, availability_id, provider_id, batch, n - 1),
             <<availability_id, n>>,
             SlotData(availability_id, provider_id, batch[n]))

\* _generate_appointment_slots: inserts the batch slot by slot and returns the
\* count; an exception of an insert is caught and 0 is returned, the slots
\* inserted before it staying in the table
GenerateAppointmentSlots(st, availability_id, provider_id, data, fault) ==
    LET batch == GeneratedSlots(data)
    IN  IF fault >= 1 /\ fault <= Len(batch)
        THEN [st |-> InsertSlots(st, availability_id, provider_id, batch, fault - 1),
              slots_created |-> 0, raised |-> TRUE]
        ELSE [st |-> InsertSlots(st, availability_id, provider_id, batch, Len(batch)),
              slots_created |-> Len(batch), raised |-> FALSE]

\* a mutant: the scan keeps the last overlapping row instead of returning at
\* the first
RECURSIVE LastConflict(_, _, _, _)
LastConflict(ws, existing_availability, data, k) ==
    IF k > Len(existing_availability) THEN 0
    ELSE LET later == LastConflict(ws, existing_availability, data, k + 1)
         IN  IF later # 0 THEN later
             ELSE IF CheckTimeOverlap(data.start_time, data.end_time,
                                      ws[existing_availability[k]].start_time,
                                      ws[existing_availability[k]].end_time)
                  THEN k ELSE 0

\* the index in the query result of the first row that overlaps the request, 0
\* when none does: the for loop of create_availability
RECURSIVE FirstConflict(_, _, _, _)
FirstConflict(ws, existing_availability, data, k) ==
    IF k > Len(existing_availability) THEN 0
    ELSE IF CheckTimeOverlap(data.start_time, data.end_time,
                             ws[existing_availability[k]].start_time,
                             ws[existing_availability[k]].end_time)
         THEN k
         ELSE FirstConflict(ws, existing_availability, data, k + 1)

RECURSIVE CreateAvailabilityOp(_, _, _, _, _)
RECURSIVE RecurringLoop(_, _, _, _, _, _, _, _)

Max(a, b) == IF a > b THEN a ELSE b

\* a mutant: the copy handed to create_availability keeps is_recurring
RecurringLoopKeepFlag(st, provider_id, data, current_date, end_date, tie, instances_created, ofault) ==
    IF ~(current_date < end_date)
    THEN [st |-> st, instances_created |-> instances_created,
          raised |-> FALSE, depth |-> 0, occurrences |-> <<>>]
    ELSE LET next_date == NextOccurrence(current_date, data.recurrence_pattern)
         IN  IF next_date >= end_date
             THEN [st |-> st, instances_created |-> instances_created,
                   raised |-> FALSE, depth |-> 0, occurrences |-> <<>>]
             ELSE LET recurring_data == [data EXCEPT !.date = next_date]
                      r == CreateAvailabilityOp(st, provider_id, recurring_data, tie,
                                                NoFault)
                      rest == RecurringLoop(r.st, provider_id, data, next_date,
                                            end_date, tie,
                                            IF r.ok THEN instances_created + 1
                                                    ELSE instances_created,
                                            0)
                  IN  [rest EXCEPT !.raised = rest.raised \/ r.raised,
                                   !.depth = Max(rest.depth, r.depth + 1),
                                   !.occurrences =
                                        <<[date |-> next_date,
                                           is_recurring |-> recurring_data.is_recurring,
                                           ok |-> r.ok]>> \o rest.occurrences]

\* a mutant: the loop is left at the first occurrence that fails
RecurringLoopStopAtFailure(st, provider_id, data, current_date, end_date, tie, instances_created, ofault) ==
    IF ~(current_date < end_date)
    THEN [st |-> st, instances_created |-> instances_created,
          raised |-> FALSE, depth |-> 0, occurrences |-> <<>>]
    ELSE LET next_date == NextOccurrence(current_date, data.recurrence_pattern)
         IN  IF next_date >= end_date
             THEN [st |-> st, instances_created |-> instances_created,
                   raised |-> FALSE, depth |-> 0, occurrences |-> <<>>]
             ELSE LET recurring_data == [data EXCEPT !.date = next_date,
                                                     !.is_recurring = FALSE]
                      r == CreateAvailabilityOp(st, provider_id, recurring_data, tie,
                                                IF ofault = 1 THEN InsertFault
                                                              ELSE NoFault)
                      rest == IF r.ok
                              THEN RecurringLoop(r.st, provider_id, data, next_date,
                                                 end_date, tie, instances_created + 1,
                                                 IF ofault > 0 THEN ofault - 1 ELSE 0)
                              ELSE [st |-> r.st,
                                    instances_created |-> instances_created,
                                    raised |-> FALSE, depth |-> 0,
                                    occurrences |-> <<>>]
                  IN  [rest EXCEPT !.raised = rest.raised \/ r.raised,
                                   !.depth = Max(rest.depth, r.depth + 1),
                                   !.occurrences =
                                        <<[date |-> next_date,
                                           is_recurring |-> recurring_data.is_recurring,
                                           ok |-> r.ok]>> \o rest.occurrences]

\* the while loop of _create_recurring_availability from current_date on:
\* the store it leaves and instances_created.  ofault counts down to the
\* occurrence whose window insert raises (0: none does).
RecurringLoop(st, provider_id, data, current_date, end_date, tie, instances_created, ofault) ==
    IF ~(current_date < end_date)
    THEN [st |-> st, instances_created |-> instances_created,
          raised |-> FALSE, depth |-> 0, occurrences |-> <<>>]
    ELSE LET next_date == NextOccurrence(current_date, data.recurrence_pattern)
         IN  IF next_date >= end_date
             THEN [st |-> st, instances_created |-> instances_created,
                   raised |-> FALSE, depth |-> 0, occurrences |-> <<>>]
             ELSE LET recurring_data == [data EXCEPT !.date = next_date,
                                                     !.is_recurring = FALSE]
                      r == CreateAvailabilityOp(st, provider_id, recurring_data, tie,
                                                IF ofault = 1 THEN InsertFault
                                                              ELSE NoFault)
                      rest == RecurringLoop(r.st, provider_id, data, next_date,
                                            end_date, tie,
                                            IF r.ok THEN instances_created + 1
                                                    ELSE instances_created,
                                            IF ofault > 0 THEN ofault - 1 ELSE 0)
                  IN  [rest EXCEPT !.raised = rest.raised \/ r.raised,
                                   !.depth = Max(rest.depth, r.depth + 1),
                                   !.occurrences =
                                        <<[date |-> next_date,
                                           is_recurring |-> recurring_data.is_recurring,
                                           ok |-> r.ok]>> \o rest.occurrences]

\* _create_recurring_availability
CreateRecurringAvailability(st, provider_id, data, tie, ofault) ==
    IF ~data.is_recurring \/ data.recurrence_pattern = NoneStr
    THEN [st |-> st, instances_created |-> 0, raised |-> FALSE, depth |-> 0,
          occurrences |-> <<>>]
    ELSE RecurringLoop(st, provider_id, data, data.date,
                       IF data.recurrence_end_date # NoDate
                       THEN data.recurrence_end_date ELSE data.date + 365,
                       tie, 0, ofault)

\* a mutant: the row is inserted before the conflict check is made, so a
\* rejected request leaves its window behind
CreateAvailabilityOpInsertFirst(st, provider_id, data, tie, fault) ==
    IF provider_id \notin Providers
    THEN Result(st, FALSE, "PROVIDER_NOT_FOUND")
    ELSE
    LET existing_availability ==
            GetProviderAvailability(st.windows, provider_id, data.date, data.date, tie)
        k == FirstConflict(st.windows, existing_availability, data, 1)
        created == RepoCreateAvailability(st, AvailabilityDict(provider_id, data))
        availability_id == created.nextId
    IN  IF k # 0
        THEN [Result(created, FALSE, "TIME_CONFLICT")
                  EXCEPT !.conflicting_availability_id = existing_availability[k]]
        ELSE
        LET gen == GenerateAppointmentSlots(created, availability_id, provider_id,
                                            data, fault)
            rec == IF data.is_recurring /\ data.recurrence_pattern # NoneStr
                   THEN CreateRecurringAvailability(
                            gen.st, provider_id, data, tie,
                            IF fault < InsertFault THEN 0 - fault - 1 ELSE 0)
                   ELSE [st |-> gen.st, instances_created |-> 0,
                         raised |-> FALSE, depth |-> 0, occurrences |-> <<>>]
        IN  [Result(rec.st, TRUE, "OK")
                EXCEPT !.availability_id = availability_id,
                       !.slots_created = gen.slots_created,
                       !.recurring_slots_created = rec.instances_created,
                       !.raised = gen.raised \/ rec.raised,
                       !.depth = rec.depth,
                       !.occurrences = rec.occurrences]

\* create_availability
CreateAvailabilityOp(st, provider_id, data, tie, fault) ==
    IF provider_id \notin Providers
    THEN Result(st, FALSE, "PROVIDER_NOT_FOUND")
    ELSE
    LET existing_availability ==
            GetProviderAvailability(st.windows, provider_id, data.date, data.date, tie)
        k == FirstConflict(st.windows, existing_availability, data, 1)
    IN  IF k # 0
        THEN [Result(st, FALSE, "TIME_CONFLICT")
                  EXCEPT !.conflicting_availability_id = existing_availability[k]]
        ELSE IF fault = InsertFault
        THEN [Result(st, FALSE, "CREATION_ERROR") EXCEPT !.raised = TRUE]
        ELSE
        LET created == RepoCreateAvailability(st, AvailabilityDict(provider_id, data))
            availability_id == created.nextId
            gen == GenerateAppointmentSlots(created, availability_id, provider_id,
                                            data, fault)
            rec == IF data.is_recurring /\ data.recurrence_pattern # NoneStr
                   THEN CreateRecurringAvailability(
                            gen.st, provider_id, data, tie,
                            IF fault < InsertFault THEN 0 - fault - 1 ELSE 0)
                   ELSE [st |-> gen.st, instances_created |-> 0,
                         raised |-> FALSE, depth |-> 0, occurrences |-> <<>>]
        IN  [Result(rec.st, TRUE, "OK")
                EXCEPT !.availability_id = availability_id,
                       !.slots_created = gen.slots_created,
                       !.recurring_slots_created = rec.instances_created,
                       !.raised = gen.raised \/ rec.raised,
                       !.depth = rec.depth,
                       !.occurrences = rec.occurrences]

\* a mutant: a patch of a time field deletes the slots of the window and
\* generates them again from the new parameters, booked slots included
UpdateAvailabilityOpRegenerateAll(st, provider_id, availability_id, patch) ==
    IF availability_id \notin DOMAIN st.windows
    THEN Result(st, FALSE, "AVAILABILITY_NOT_FOUND")
    ELSE IF st.windows[availability_id].provider_id # provider_id
    THEN Result(st, FALSE, "UNAUTHORIZED")
    ELSE LET updated == RepoUpdateAvailability(st, availability_id, patch)
             cleared == Store(updated.windows,
                              Remove(updated.slots,
                                     GetAppointmentSlots(updated.slots, availability_id)),
                              updated.nextId)
         IN  [Result(IF DOMAIN patch \cap {"start_time", "end_time", "slot_duration",
                                           "break_duration"} # {}
                     THEN GenerateAppointmentSlots(
                              cleared, availability_id, provider_id,
                              updated.windows[availability_id], NoFault).st
                     ELSE updated,
                     TRUE, "OK")
                 EXCEPT !.availability_id = availability_id]

\* update_availability.  patch holds the fields of the request that are set and
\* not None (update_dict).  The regeneration branch reads the slots and logs; it
\* writes nothing.
UpdateAvailabilityOp(st, provider_id, availability_id, patch) ==
    IF availability_id \notin DOMAIN st.windows
    THEN Result(st, FALSE, "AVAILABILITY_NOT_FOUND")
    ELSE IF st.windows[availability_id].provider_id # provider_id
    THEN Result(st, FALSE, "UNAUTHORIZED")
    ELSE [Result(RepoUpdateAvailability(st, availability_id, patch),
                 TRUE, "OK")
             EXCEPT !.availability_id = availability_id]

\* the slots of the window whose status is booked
BookedSlots(sl, availability_id) ==
    {k \in GetAppointmentSlots(sl, availability_id) : sl[k].status = "booked"}

\* delete_availability
DeleteAvailabilityOp(st, provider_id, availability_id) ==
    IF availability_id \notin DOMAIN st.windows
    THEN Result(st, FALSE, "AVAILABILITY_NOT_FOUND")
    ELSE IF st.windows[availability_id].provider_id # provider_id
    THEN Result(st, FALSE, "UNAUTHORIZED")
    ELSE
    LET existing_slots == GetAppointmentSlots(st.slots, availability_id)
        booked_slots == BookedSlots(st.slots, availability_id)
    IN  IF booked_slots # {}
        THEN [Result(st, FALSE, "HAS_BOOKED_APPOINTMENTS")
                 EXCEPT !.availability_id = availability_id,
                        !.booked_slots_count = Cardinality(booked_slots)]
        ELSE [Result(RepoDeleteAvailability(st, availability_id), TRUE, "OK")
                 EXCEPT !.availability_id = availability_id,
                        !.deleted_slots_count = Cardinality(existing_slots)]

\* the default length, in days, of the range of get_available_slots
DefaultRangeDays == 14

\* service.get_available_slots: the range it queries (today when no start date
\* is given, two weeks from the start when no end date is) and the rows it
\* returns, each with the fields the caller reads
GetAvailableSlotsOp(st, provider_id, start_date, end_date, today, tie) ==
    LET from == IF start_date = NoDate THEN today ELSE start_date
        to == IF end_date = NoDate THEN from + DefaultRangeDays ELSE end_date
        ids == GetAvailableSlots(st.slots, provider_id, from, to, tie)
    IN  [start_date |-> from, end_date |-> to,
         slots |-> [n \in 1..Len(ids) |->
                       [slot_id |-> ids[n],
                        provider_id |-> st.slots[ids[n]].provider_id,
                        status |-> st.slots[ids[n]].status,
                        slot_start_time |-> st.slots[ids[n]].slot_start_time]],
         total_count |-> Len(ids)]

-----------------------------------------------------------------------------
(* Requests *)

\* CreateAvailabilitySchema.validate_times_and_recurrence: a request that fails
\* it is never handed to the service
ValidCreateRequest(data) ==
    /\ TimeStrLess(data.start_time, data.end_time)
    /\ ~(data.is_recurring /\ data.recurrence_pattern = NoneStr)
    /\ ~(data.recurrence_pattern # NoneStr /\ ~data.is_recurring)
    /\ ~(data.recurrence_end_date # NoDate /\ ~data.is_recurring)
    /\ ~(data.recurrence_end_date # NoDate /\ data.recurrence_end_date <= data.date)

\* a CreateAvailabilitySchema value
Request(d, st, et, tz, rec, pat, red, sd, bd) ==
    [date |-> d, start_time |-> st, end_time |-> et, timezone |-> tz,
     is_recurring |-> rec, recurrence_pattern |-> pat, recurrence_end_date |-> red,
     slot_duration |-> sd, break_duration |-> bd, max_appointments_per_slot |-> 1]

\* a request for one window, not recurring, 30-minute slots without breaks, UTC
Plain(d, st, et) == Request(d, st, et, "UTC", FALSE, NoneStr, NoDate, 30, 0)

\* a request for a window repeated every day until (not including) date red
Daily(d, st, et, red) == Request(d, st, et, "UTC", TRUE, "daily", red, 30, 0)

\* the same repeated every week, and every month
Weekly(d, st, et, red) == Request(d, st, et, "UTC", TRUE, "weekly", red, 30, 0)
Monthly(d, st, et, red) == Request(d, st, et, "UTC", TRUE, "monthly", red, 30, 0)

LifecycleTimes == {<<9, 0>>, <<9, 30>>, <<10, 0>>}
LifecycleDates == {1, 2}

\* the calls of create_availability submitted under Spec: <<provider, request>>
SpecCreates ==
    {<<"p1", r>> : r \in {x \in {Plain(d, st, et) : d \in LifecycleDates,
                                     st \in LifecycleTimes, et \in LifecycleTimes} :
                             ValidCreateRequest(x)}}
    \cup {<<"p1", Daily(1, <<9, 0>>, <<9, 30>>, 3)>>}
    \cup {<<"p2", Plain(1, <<9, 0>>, <<10, 0>>)>>}
    \cup {<<UnknownProvider, Plain(1, <<9, 0>>, <<10, 0>>)>>}

\* the patches of update_availability submitted under Spec
SpecPatches == {[date |-> d] : d \in LifecycleDates}

-----------------------------------------------------------------------------
(* Service calls run one at a time *)

NoCall == [op |-> "none"]

\* the record of a call that returned: its arguments and what it returned
Returned(op, provider_id, arg, r) ==
    [op |-> op, provider_id |-> provider_id, arg |-> arg,
     ok |-> r.ok, error_code |-> r.error_code,
     availability_id |-> r.availability_id,
     conflicting_availability_id |-> r.conflicting_availability_id,
     slots_created |-> r.slots_created,
     recurring_slots_created |-> r.recurring_slots_created,
     booked_slots_count |-> r.booked_slots_count,
     deleted_slots_count |-> r.deleted_slots_count,
     raised |-> r.raised, depth |-> r.depth, occurrences |-> r.occurrences]

Current == Store(windows, slots, nextId)

Commit(st) ==
    /\ windows' = st.windows
    /\ slots' = st.slots
    /\ nextId' = st.nextId

\* one call of create_availability, from request to return
CreateAvailability(provider_id, data, tie, fault) ==
    /\ ~GenerationCut(data)
    /\ LET r == CreateAvailabilityOp(Current, provider_id, data, tie, fault)
       IN  /\ r.st.nextId <= MaxWindows
           /\ Commit(r.st)
           /\ last' = Returned("create", provider_id, data, r)
    /\ UNCHANGED <<procs, pure>>

\* one call of update_availability
UpdateAvailability(provider_id, availability_id, patch) ==
    /\ LET r == UpdateAvailabilityOp(Current, provider_id, availability_id, patch)
       IN  /\ Commit(r.st)
           /\ last' = [Returned("update", provider_id, patch, r)
                          EXCEPT !.availability_id = availability_id]
    /\ UNCHANGED <<procs, pure>>

\* one call of delete_availability
DeleteAvailability(provider_id, availability_id) ==
    /\ LET r == DeleteAvailabilityOp(Current, provider_id, availability_id)
       IN  /\ Commit(r.st)
           /\ last' = Returned("delete", provider_id, availability_id, r)
    /\ UNCHANGED <<procs, pure>>

\* one call of repository.update_slot_status on a stored slot
UpdateSlotStatus(slot_id, status, patient_id) ==
    /\ slot_id \in DOMAIN slots
    /\ Commit(RepoUpdateSlotStatus(Current, slot_id, status, patient_id))
    /\ last' = [op |-> "update_slot_status", slot_id |-> slot_id,
                status |-> status, patient_id |-> patient_id]
    /\ UNCHANGED <<procs, pure>>

\* no worker is inside a call
Idle == [w \in {1, 2} |-> [pc |-> "idle", provider_id |-> NoneStr,
                           data |-> Plain(NoDate, <<0, 0>>, <<0, 0>>),
                           availability_id |-> 0, k |-> 0]]

Init ==
    /\ windows = <<>>
    /\ slots = <<>>
    /\ nextId = 0
    /\ last = NoCall
    /\ procs = Idle
    /\ pure = NoCall

Next ==
    \/ \E c \in SpecCreates, tie \in {"asc", "desc"} :
           CreateAvailability(c[1], c[2], tie, NoFault)
    \/ \E p \in Providers, id \in 1..MaxWindows, patch \in SpecPatches :
           UpdateAvailability(p, id, patch)
    \/ \E p \in Providers, id \in 1..MaxWindows :
           DeleteAvailability(p, id)

Spec == Init /\ [][Next]_vars

-----------------------------------------------------------------------------
(* Slot lifecycle: windows of one date, their slots booked, released, cancelled
   and blocked through repository.update_slot_status, and deleted *)

SlotsCreates ==
    {<<"p1", Plain(1, <<9, 0>>, <<10, 0>>)>>,
     <<"p1", Plain(1, <<9, 0>>, <<9, 30>>)>>,
     <<"p2", Plain(1, <<9, 0>>, <<9, 30>>)>>}

NextSlots ==
    \/ \E c \in SlotsCreates :
           CreateAvailability(c[1], c[2], "asc", NoFault)
    \/ \E p \in Providers, id \in 1..MaxWindows :
           DeleteAvailability(p, id)
    \/ \E k \in DOMAIN slots, status \in SlotStatus, patient_id \in Patients \cup {NoneStr} :
           UpdateSlotStatus(k, status, patient_id)

SpecSlots == Init /\ [][NextSlots]_vars

-----------------------------------------------------------------------------
(* A repository that can fail: a create_availability call during which one
   repository insert raises *)

FaultCreates ==
    {<<"p1", Plain(1, <<9, 0>>, <<10, 0>>)>>,
     <<"p1", Plain(1, <<9, 0>>, <<9, 30>>)>>,
     <<"p1", Plain(2, <<9, 0>>, <<10, 0>>)>>,
     <<"p1", Daily(1, <<9, 30>>, <<10, 0>>, 3)>>}

NextFault ==
    \/ \E c \in FaultCreates, fault \in {NoFault, InsertFault, 1, 2} :
           CreateAvailability(c[1], c[2], "asc", fault)
    \/ \E p \in Providers, id \in 1..MaxWindows :
           DeleteAvailability(p, id)

SpecFault == Init /\ [][NextFault]_vars

-----------------------------------------------------------------------------
(* Recurring windows: series of several windows created by one call, on a store
   that may hold a window in the way of an occurrence, with a repository that
   may raise on the insert of the first occurrence *)

\* windows inserted over a whole behaviour of SpecRecur
MaxSeriesWindows == 4

\* 2024-01-08, 2024-01-22, 2024-01-31 and 2024-04-01 as day ordinals
Jan08 == Ordinal(<<2024, 1, 8>>)
Jan22 == Ordinal(<<2024, 1, 22>>)
Jan31 == Ordinal(<<2024, 1, 31>>)
Apr01 == Ordinal(<<2024, 4, 1>>)

RecurCreates ==
    {<<"p1", Weekly(1, <<9, 0>>, <<9, 30>>, Jan22)>>,
     <<"p1", Monthly(Jan31, <<9, 0>>, <<9, 30>>, Apr01)>>,
     <<"p1", Daily(1, <<9, 0>>, <<9, 30>>, 4)>>,
     <<"p1", Plain(Jan08, <<9, 0>>, <<10, 0>>)>>}

\* one call of create_availability for a series
CreateAvailabilitySeries(provider_id, data, tie, fault) ==
    /\ ~GenerationCut(data)
    /\ LET r == CreateAvailabilityOp(Current, provider_id, data, tie, fault)
       IN  /\ r.st.nextId <= MaxSeriesWindows
           /\ Commit(r.st)
           /\ last' = Returned("create", provider_id, data, r)
    /\ UNCHANGED <<procs, pure>>

NextRecur ==
    \/ \E c \in RecurCreates, fault \in {NoFault, OccurrenceFault(1)} :
           CreateAvailabilitySeries(c[1], c[2], "asc", fault)
    \/ \E id \in 1..MaxSeriesWindows :
           DeleteAvailability("p1", id)

SpecRecur == Init /\ [][NextRecur]_vars

-----------------------------------------------------------------------------
(* Requests as they arrive: the body of a create request is made into a
   CreateAvailabilitySchema, which rejects it or hands it to the service *)

RawTimes == {<<9, 0>>, <<9, 30>>}
RawEndDates == {NoDate, 1, 2}
RawSlotDurations == {0 - 30, 0, 30}
RawBreakDurations == {0, 15, 45}

\* the request bodies submitted under SpecValidate (all but the series without
\* an end date, whose expansion runs over 365 days)
RawRequests ==
    {r \in {Request(1, st, et, "UTC", rec, pat, red, sd, bd) :
                st \in RawTimes, et \in RawTimes, rec \in BOOLEAN,
                pat \in {NoneStr, "daily"}, red \in RawEndDates,
                sd \in RawSlotDurations, bd \in RawBreakDurations} :
        ~(r.is_recurring /\ r.recurrence_pattern # NoneStr
                         /\ r.recurrence_end_date = NoDate)}

\* the create endpoint: the body fails validation and nothing is called, or
\* create_availability is called with the validated request
SubmitCreate(provider_id, raw, tie) ==
    \/ /\ ~ValidCreateRequest(raw)
       /\ last' = [op |-> "rejected", provider_id |-> provider_id, arg |-> raw]
       /\ UNCHANGED <<windows, slots, nextId, procs, pure>>
    \/ /\ ValidCreateRequest(raw)
       /\ CreateAvailability(provider_id, raw, tie, NoFault)

NextValidate ==
    \/ \E raw \in RawRequests : SubmitCreate("p1", raw, "asc")
    \/ \E id \in 1..MaxWindows : DeleteAvailability("p1", id)

SpecValidate == Init /\ [][NextValidate]_vars

-----------------------------------------------------------------------------
(* Updates: windows patched by their owner and by another provider, before and
   after they exist, while their slots are booked and released *)

UpdateCreates ==
    {<<"p1", Plain(1, <<9, 0>>, <<10, 0>>)>>,
     <<"p2", Plain(1, <<9, 0>>, <<10, 0>>)>>}

\* the update_dict values submitted under SpecUpdate; the first is that of a
\* request with no field set
UpdatePatches ==
    {[f \in {} |-> 0],
     [start_time |-> <<9, 30>>, slot_duration |-> 15],
     [status |-> "cancelled"],
     [status |-> "available"],
     [max_appointments_per_slot |-> 0 - 1]}

NextUpdate ==
    \/ \E c \in UpdateCreates :
           CreateAvailability(c[1], c[2], "asc", NoFault)
    \/ \E p \in Providers, id \in 1..MaxWindows, patch \in UpdatePatches :
           UpdateAvailability(p, id, patch)
    \/ \E k \in {x \in DOMAIN slots : slots[x].provider_id = "p1"} :
           \/ UpdateSlotStatus(k, "booked", "pt1")
           \/ UpdateSlotStatus(k, "available", NoneStr)

SpecUpdate == Init /\ [][NextUpdate]_vars

-----------------------------------------------------------------------------
(* Creates on a store whose windows have been cancelled or blocked: requests
   of one provider that overlap, that touch another date, and a request of
   another provider *)

ConflictCreates ==
    {<<"p1", Plain(1, <<9, 0>>, <<10, 0>>)>>,
     <<"p1", Plain(1, <<9, 30>>, <<10, 0>>)>>,
     <<"p1", Plain(2, <<9, 0>>, <<10, 0>>)>>,
     <<"p2", Plain(1, <<9, 0>>, <<10, 0>>)>>}

ConflictPatches == {[status |-> "cancelled"], [status |-> "blocked"]}

NextConflict ==
    \/ \E c \in ConflictCreates, tie \in {"asc", "desc"} :
           CreateAvailability(c[1], c[2], tie, NoFault)
    \/ \E p \in Providers, id \in 1..MaxWindows, patch \in ConflictPatches :
           UpdateAvailability(p, id, patch)
    \/ \E p \in Providers, id \in 1..MaxWindows :
           DeleteAvailability(p, id)

SpecConflict == Init /\ [][NextConflict]_vars

-----------------------------------------------------------------------------
(* Service calls of two server workers interleaved.  A worker runs one call at
   a time; between two repository calls of it the other worker may run any of
   its own.  A repository call is one transaction and is one step. *)

Workers == {1, 2}

RaceCreates ==
    {<<"p1", Plain(1, <<9, 0>>, <<10, 0>>)>>,
     <<"p1", Plain(1, <<9, 30>>, <<10, 0>>)>>}

\* the worker's position: the call it is in and the locals of that call
Proc(pc, provider_id, data, availability_id, k) ==
    [pc |-> pc, provider_id |-> provider_id, data |-> data,
     availability_id |-> availability_id, k |-> k]

NoData == Plain(NoDate, <<0, 0>>, <<0, 0>>)
IdleProc == Proc("idle", NoneStr, NoData, 0, 0)

\* the call of worker w returns; what it returns is not kept
Return(w) ==
    /\ procs' = [procs EXCEPT ![w] = IdleProc]
    /\ UNCHANGED last

\* create_availability is called: the worker is at the conflict query
CreateBegin(w, provider_id, data) ==
    /\ procs[w].pc = "idle"
    /\ nextId + Cardinality({v \in Workers : procs[v].pc \in {"create_check", "create_insert"}})
           < MaxWindows
    /\ procs' = [procs EXCEPT ![w] = Proc("create_check", provider_id, data, 0, 0)]
    /\ UNCHANGED <<windows, slots, nextId, last, pure>>

\* lines 43-67: the provider lookup, the conflict query and the overlap scan;
\* returns PROVIDER_NOT_FOUND or TIME_CONFLICT, or goes on to the insert
CreateCheck(w) ==
    /\ procs[w].pc = "create_check"
    /\ LET p == procs[w]
           existing_availability ==
               GetProviderAvailability(windows, p.provider_id, p.data.date,
                                       p.data.date, "asc")
           k == FirstConflict(windows, existing_availability, p.data, 1)
       IN  IF p.provider_id \notin Providers \/ k # 0
           THEN Return(w)
           ELSE /\ procs' = [procs EXCEPT ![w].pc = "create_insert"]
                /\ UNCHANGED last
    /\ UNCHANGED <<windows, slots, nextId, pure>>

\* line 92: repository.create_availability
CreateInsert(w) ==
    /\ procs[w].pc = "create_insert"
    /\ LET st == RepoCreateAvailability(Current,
                     AvailabilityDict(procs[w].provider_id, procs[w].data))
       IN  /\ Commit(st)
           /\ procs' = [procs EXCEPT ![w].pc = "create_slots",
                                     ![w].availability_id = st.nextId,
                                     ![w].k = 1]
    /\ UNCHANGED <<last, pure>>

\* lines 396-413: one iteration of the generator loop, one
\* repository.create_appointment_slot
CreateSlot(w) ==
    /\ procs[w].pc = "create_slots"
    /\ LET p == procs[w]
           batch == GeneratedSlots(p.data)
       IN  /\ p.k <= Len(batch)
           /\ Commit(RepoCreateAppointmentSlot(Current, <<p.availability_id, p.k>>,
                         SlotData(p.availability_id, p.provider_id, batch[p.k])))
           /\ procs' = [procs EXCEPT ![w].k = p.k + 1]
    /\ UNCHANGED <<last, pure>>

\* lines 101-116 and 415-416: the loop has ended, the request is not recurring,
\* and create_availability returns success
CreateReturn(w) ==
    /\ procs[w].pc = "create_slots"
    /\ procs[w].k > Len(GeneratedSlots(procs[w].data))
    /\ ~(procs[w].data.is_recurring /\ procs[w].data.recurrence_pattern # NoneStr)
    /\ Return(w)
    /\ UNCHANGED <<windows, slots, nextId, pure>>

\* delete_availability is called: the worker is at get_availability_by_id
DeleteBegin(w, provider_id, availability_id) ==
    /\ procs[w].pc = "idle"
    /\ procs' = [procs EXCEPT ![w] =
                     Proc("delete_get", provider_id, NoData, availability_id, 0)]
    /\ UNCHANGED <<windows, slots, nextId, last, pure>>

\* lines 274-285: get_availability_by_id and the ownership test; returns
\* AVAILABILITY_NOT_FOUND or UNAUTHORIZED, or goes on
DeleteGet(w) ==
    /\ procs[w].pc = "delete_get"
    /\ LET p == procs[w]
       IN  IF \/ p.availability_id \notin DOMAIN windows
              \/ windows[p.availability_id].provider_id # p.provider_id
           THEN Return(w)
           ELSE /\ procs' = [procs EXCEPT ![w].pc = "delete_slots"]
                /\ UNCHANGED last
    /\ UNCHANGED <<windows, slots, nextId, pure>>

\* lines 288-296: get_appointment_slots and the booked test; returns
\* HAS_BOOKED_APPOINTMENTS, or goes on with k = len(existing_slots)
DeleteSlots(w) ==
    /\ procs[w].pc = "delete_slots"
    /\ LET p == procs[w]
           existing_slots == GetAppointmentSlots(slots, p.availability_id)
           booked_slots == BookedSlots(slots, p.availability_id)
       IN  IF booked_slots # {}
           THEN Return(w)
           ELSE /\ procs' = [procs EXCEPT ![w].pc = "delete_commit",
                                          ![w].k = Cardinality(existing_slots)]
                /\ UNCHANGED last
    /\ UNCHANGED <<windows, slots, nextId, pure>>

\* lines 299-311: repository.delete_availability, then the return (success, or
\* DELETION_FAILED when no window row was deleted)
DeleteCommit(w) ==
    /\ procs[w].pc = "delete_commit"
    /\ Commit(RepoDeleteAvailability(Current, procs[w].availability_id))
    /\ Return(w)
    /\ UNCHANGED pure

\* repository.update_slot_status called by a worker that is in no other call
SlotStatusCall(w, slot_id, status, patient_id) ==
    /\ procs[w].pc = "idle"
    /\ slot_id \in DOMAIN slots
    /\ Commit(RepoUpdateSlotStatus(Current, slot_id, status, patient_id))
    /\ UNCHANGED <<last, procs, pure>>

NextRace ==
    \/ \E w \in Workers, c \in RaceCreates : CreateBegin(w, c[1], c[2])
    \/ \E w \in Workers : CreateCheck(w)
    \/ \E w \in Workers : CreateInsert(w)
    \/ \E w \in Workers : CreateSlot(w)
    \/ \E w \in Workers : CreateReturn(w)
    \/ \E w \in Workers, id \in 1..nextId : DeleteBegin(w, "p1", id)
    \/ \E w \in Workers : DeleteGet(w)
    \/ \E w \in Workers : DeleteSlots(w)
    \/ \E w \in Workers : DeleteCommit(w)
    \/ \E w \in Workers, k \in DOMAIN slots, status \in {"booked", "available"} :
           SlotStatusCall(w, k, status, IF status = "booked" THEN "pt1" ELSE NoneStr)

SpecRace == Init /\ [][NextRace]_vars

-----------------------------------------------------------------------------
(* Reading the available slots: windows of two providers on two dates, their
   slots booked, cancelled, blocked and released, windows deleted, and
   get_available_slots called with and without a date range *)

ReadCreates ==
    {<<"p1", Plain(1, <<9, 0>>, <<10, 0>>)>>,
     <<"p1", Plain(2, <<9, 0>>, <<9, 30>>)>>,
     <<"p2", Plain(1, <<9, 0>>, <<9, 30>>)>>}

\* the <<start_date, end_date>> arguments of the reads; NoDate is an argument
\* left out
ReadRanges == {<<NoDate, NoDate>>, <<1, 1>>, <<2, 2>>, <<1, 2>>}

\* one call of service.get_available_slots made on the date today
GetAvailableSlotsCall(provider_id, start_date, end_date, today, tie) ==
    /\ LET r == GetAvailableSlotsOp(Current, provider_id, start_date, end_date,
                                    today, tie)
       IN  last' = [op |-> "get_available_slots", provider_id |-> provider_id,
                    start_date |-> r.start_date, end_date |-> r.end_date,
                    slots |-> r.slots, total_count |-> r.total_count]
    /\ UNCHANGED <<windows, slots, nextId, procs, pure>>

NextRead ==
    \/ \E c \in ReadCreates :
           CreateAvailability(c[1], c[2], "asc", NoFault)
    \/ \E id \in 1..MaxWindows :
           DeleteAvailability("p1", id)
    \/ \E k \in {x \in DOMAIN slots : slots[x].provider_id = "p1"},
          status \in SlotStatus :
           UpdateSlotStatus(k, status, IF status = "booked" THEN "pt1" ELSE NoneStr)
    \/ \E p \in Providers, range \in ReadRanges, today \in LifecycleDates :
           GetAvailableSlotsCall(p, range[1], range[2], today, "asc")

SpecRead == Init /\ [][NextRead]_vars

-----------------------------------------------------------------------------
(* Provider sign-in (AuthService.authenticate_provider) over the providers
   table as registration leaves it.  A password hash is the record of the
   password it was made from; the string "" that stands in for a missing hash
   is EmptyHash, which no password verifies against. *)

Emails == {"a@x.org", "b@x.org"}
Passwords == {"pw1", "pw2", "pw3"}
VerificationStatus == {"pending", "verified", "rejected"}

\* hash_password, and the "" of provider.get("password_hash", "")
HashPassword(password) == [alg |-> "bcrypt", password |-> password]
EmptyHash == [alg |-> "none", password |-> ""]

\* verify_password: bcrypt.checkpw, False when it raises
VerifyPassword(plain_password, hashed_password) ==
    hashed_password = HashPassword(plain_password)

\* the rows of the providers table
ProviderRows ==
    [email : Emails, password_hash : {HashPassword("pw1"), HashPassword("pw2")},
     is_active : BOOLEAN, verification_status : VerificationStatus]

\* the providers tables of the model: empty, or one registered provider
ProviderTables == {{}} \cup {{row} : row \in ProviderRows}

NoProvider == [found |-> FALSE]

\* Provider.to_dict: the keys of the dict the repository returns;
\* password_hash is not one of them
ToDict(row) ==
    [found |-> TRUE, email |-> row.email,
     verification_status |-> row.verification_status, is_active |-> row.is_active]

\* repository.get_provider_by_email
GetProviderByEmail(table, email) ==
    IF \E row \in table : row.email = email
    THEN ToDict(CHOOSE row \in table : row.email = email)
    ELSE NoProvider

\* authenticate_provider: the error code, or OK with a token issued
AuthenticateProvider(table, login_data) ==
    LET provider == GetProviderByEmail(table, login_data.email)
        password_hash == IF "password_hash" \in DOMAIN provider
                         THEN provider.password_hash ELSE EmptyHash
    IN  IF ~provider.found
        THEN [ok |-> FALSE, error_code |-> "INVALID_CREDENTIALS", token |-> FALSE]
        ELSE IF ~VerifyPassword(login_data.password, password_hash)
        THEN [ok |-> FALSE, error_code |-> "INVALID_CREDENTIALS", token |-> FALSE]
        ELSE IF ~provider.is_active
        THEN [ok |-> FALSE, error_code |-> "ACCOUNT_DEACTIVATED", token |-> FALSE]
        ELSE IF provider.verification_status # "verified"
        THEN [ok |-> FALSE, error_code |-> "ACCOUNT_NOT_VERIFIED", token |-> FALSE]
        ELSE [ok |-> TRUE, error_code |-> "OK", token |-> TRUE]

\* one call of authenticate_provider on a providers table
AuthenticateCall(table, email, password) ==
    /\ LET login_data == [email |-> email, password |-> password]
           r == AuthenticateProvider(table, login_data)
       IN  pure' = [op |-> "authenticate", table |-> table, login_data |-> login_data,
                    ok |-> r.ok, error_code |-> r.error_code, token |-> r.token]
    /\ UNCHANGED <<windows, slots, nextId, last, procs>>

NextAuth ==
    \E table \in ProviderTables, email \in Emails, password \in Passwords :
        AuthenticateCall(table, email, password)

SpecAuth == Init /\ [][NextAuth]_vars

-----------------------------------------------------------------------------
(* The loop of _generate_appointment_slots followed one iteration at a time,
   on requests the schema accepts.  The locals of the loop are current_time and
   slots_created; iterations are followed while slots_created < MaxIter. *)

LoopTimes == {<<9, 0>>, <<9, 30>>, <<10, 0>>}
LoopSlotDurations == {0 - 30, 0, 15, 30}
LoopBreakDurations == {0 - 30, 0 - 15, 0, 15}

LoopRequests ==
    {r \in {Request(1, st, et, "UTC", FALSE, NoneStr, NoDate, sd, bd) :
                st \in LoopTimes, et \in LoopTimes,
                sd \in LoopSlotDurations, bd \in LoopBreakDurations} :
        ValidCreateRequest(r)}

\* lines 383-394: the datetimes are made and the loop is reached
GenerateEnter(data) ==
    /\ pure' = [op |-> "loop", data |-> data,
                current_time |-> Localize(data.date, data.start_time, data.timezone),
                end_datetime |-> Localize(data.date, data.end_time, data.timezone),
                slots_created |-> 0, running |-> TRUE]
    /\ UNCHANGED <<windows, slots, nextId, last, procs>>

\* lines 396-413: the loop test holds and the body runs once
GenerateIterate ==
    /\ pure.op = "loop"
    /\ pure.running
    /\ pure.slots_created < MaxIter
    /\ pure.current_time + pure.data.slot_duration <= pure.end_datetime
    /\ LET slot_end_time == pure.current_time + pure.data.slot_duration
       IN  pure' = [pure EXCEPT !.slots_created = @ + 1,
                                !.current_time = slot_end_time + pure.data.break_duration]
    /\ UNCHANGED <<windows, slots, nextId, last, procs>>

\* lines 396 and 415-416: the loop test fails and the count is returned
GenerateExit ==
    /\ pure.op = "loop"
    /\ pure.running
    /\ ~(pure.current_time + pure.data.slot_duration <= pure.end_datetime)
    /\ pure' = [pure EXCEPT !.running = FALSE]
    /\ UNCHANGED <<windows, slots, nextId, last, procs>>

NextLoop ==
    \/ \E data \in LoopRequests : GenerateEnter(data)
    \/ GenerateIterate
    \/ GenerateExit

SpecLoop == Init /\ [][NextLoop]_vars

-----------------------------------------------------------------------------
(* The pure helpers called on their own *)

PureTimes == {<<8, 45>>, <<9, 0>>, <<9, 30>>, <<10, 0>>, <<10, 15>>}
PureZones == {"UTC", "America/New_York", "Asia/Kolkata"}
\* slot_duration and break_duration are plain int fields of the schema: any
\* integer is accepted
PureSlotDurations == {0 - 30, 0, 15, 20, 30, 45, 60}
PureBreakDurations == {0 - 30, 0 - 10, 0, 5, 10, 15}

\* wall-clock times on either side of the hour 2024-03-10 skips in New York
PureDstTimes == {<<1, 30>>, <<2, 30>>, <<3, 30>>}

PureRequests ==
    {r \in {Request(1, st, et, tz, FALSE, NoneStr, NoDate, sd, bd) :
                st \in PureTimes, et \in PureTimes, tz \in PureZones,
                sd \in PureSlotDurations, bd \in PureBreakDurations}
           \cup {Request(DstBegins, st, et, "America/New_York", FALSE, NoneStr,
                         NoDate, sd, bd) :
                st \in PureDstTimes, et \in PureDstTimes,
                sd \in PureSlotDurations, bd \in PureBreakDurations} :
        ValidCreateRequest(r)}

\* the generator loop run on a request: the batch it emits (cut: the loop was
\* still running after MaxIter iterations)
GenerateCall(data) ==
    /\ pure' = [op |-> "generate", data |-> data,
                slots |-> GeneratedSlots(data), cut |-> GenerationCut(data)]
    /\ UNCHANGED <<windows, slots, nextId, last, procs>>

\* _check_time_overlap called on two ranges, and on the two ranges exchanged
OverlapCall(start1, end1, start2, end2) ==
    /\ pure' = [op |-> "overlap", start1 |-> start1, end1 |-> end1,
                start2 |-> start2, end2 |-> end2,
                result |-> CheckTimeOverlap(start1, end1, start2, end2),
                exchanged |-> CheckTimeOverlap(start2, end2, start1, end1)]
    /\ UNCHANGED <<windows, slots, nextId, last, procs>>

NextPure ==
    \/ \E data \in PureRequests : GenerateCall(data)
    \/ \E start1 \in PureTimes, end1 \in PureTimes,
          start2 \in PureTimes, end2 \in PureTimes :
           OverlapCall(start1, end1, start2, end2)

SpecPure == Init /\ [][NextPure]_vars

-----------------------------------------------------------------------------
(* Properties *)

\* the minutes of the day inside the half-open range [start_time, end_time)
Minutes(start_time, end_time) ==
    {m \in 0..1439 : time_to_minutes(start_time) <= m /\ m < time_to_minutes(end_time)}

\* two windows conflict: same provider, same date, and a minute in both ranges
Conflict(w1, w2) ==
    /\ w1.provider_id = w2.provider_id
    /\ w1.date = w2.date
    /\ Minutes(w1.start_time, w1.end_time) \cap Minutes(w2.start_time, w2.end_time) # {}

\* C1: run one at a time, create_availability, update_availability and
\* delete_availability never leave two stored windows of the same provider and
\* date with overlapping [start_time, end_time) ranges.
C1_NoOverlappingWindows ==
    \A i, j \in DOMAIN windows : i # j => ~Conflict(windows[i], windows[j])

\* the stored windows, other than the one the last create inserted, that
\* conflict with the request of the last create
ConflictingWithLast ==
    {i \in DOMAIN windows \ {last.availability_id} :
        Conflict(windows[i], [provider_id |-> last.provider_id,
                              date |-> last.arg.date,
                              start_time |-> last.arg.start_time,
                              end_time |-> last.arg.end_time])}

\* C8: for an existing provider create_availability succeeds exactly when no
\* stored window of the provider and date overlaps the request; otherwise it
\* fails with TIME_CONFLICT and names an overlapping window that no other
\* overlapping window precedes in the stored (date, start_time) order.
C8_AdmittedIffNoConflict ==
    (last.op = "create" /\ last.provider_id \in Providers) =>
        /\ last.ok <=> ConflictingWithLast = {}
        /\ ConflictingWithLast # {} =>
              /\ last.error_code = "TIME_CONFLICT"
              /\ last.conflicting_availability_id \in ConflictingWithLast
              /\ \A j \in ConflictingWithLast :
                     ~TimeStrLess(windows[j].start_time,
                                  windows[last.conflicting_availability_id].start_time)

\* C8 witness: a create was rejected although the first window inserted does
\* not conflict or is not the first in stored order: two stored windows overlap
\* the request and the one named is the later insertion.
C8_Witness ==
    /\ last.op = "create"
    /\ last.error_code = "TIME_CONFLICT"
    /\ Cardinality(ConflictingWithLast) >= 2
    /\ \E j \in ConflictingWithLast : j < last.conflicting_availability_id

\* C9: a create_availability that fails with PROVIDER_NOT_FOUND or TIME_CONFLICT
\* leaves the windows and the slots exactly as they were; no window, slot or
\* recurring instance is inserted.
C9_FailedCreateChangesNothing ==
    [][(last'.op = "create" /\ last'.error_code \in {"PROVIDER_NOT_FOUND", "TIME_CONFLICT"})
           => (windows' = windows /\ slots' = slots /\ nextId' = nextId)]_vars

\* C9 witness: a recurring request was rejected with TIME_CONFLICT on a store
\* that holds windows.
C9_Witness ==
    /\ last.op = "create"
    /\ last.error_code = "TIME_CONFLICT"
    /\ last.arg.is_recurring
    /\ DOMAIN windows # {}

\* C4: delete_availability by the owner removes the window and all its slots and
\* returns the number of slots removed when none of its slots is booked; with a
\* booked slot it fails with HAS_BOOKED_APPOINTMENTS and the booked count and
\* changes nothing.
C4_DeleteByBookedCount ==
    [][(/\ last'.op = "delete"
        /\ last'.arg \in DOMAIN windows
        /\ windows[last'.arg].provider_id = last'.provider_id)
           => LET own == {k \in DOMAIN slots : slots[k].availability_id = last'.arg}
                  booked == {k \in own : slots[k].status = "booked"}
              IN  IF booked = {}
                  THEN /\ last'.ok
                       /\ windows' = Remove(windows, {last'.arg})
                       /\ slots' = Remove(slots, own)
                       /\ last'.deleted_slots_count =
                              Cardinality(DOMAIN slots \ DOMAIN slots')
                  ELSE /\ ~last'.ok
                       /\ last'.error_code = "HAS_BOOKED_APPOINTMENTS"
                       /\ last'.booked_slots_count = Cardinality(booked)
                       /\ windows' = windows
                       /\ slots' = slots]_vars

\* C4 witness: a delete removed a window with its two slots while a booked slot
\* of another window stays.
C4_Witness ==
    /\ last.op = "delete"
    /\ last.ok
    /\ last.deleted_slots_count = 2
    /\ \E k \in DOMAIN slots : slots[k].status = "booked"


\* C10: once create_availability has returned, every stored window is stored
\* with the complete slot batch its parameters generate: never with a part of
\* it, never with none of it.
C10_WindowWithCompleteBatch ==
    \A id \in DOMAIN windows :
        LET batch == GeneratedSlots(windows[id])
            own == {k \in DOMAIN slots : slots[k].availability_id = id}
        IN  /\ Cardinality(own) = Len(batch)
            /\ {<<slots[k].slot_start_time, slots[k].slot_end_time>> : k \in own}
                   = {<<batch[n].slot_start_time, batch[n].slot_end_time>> :
                          n \in 1..Len(batch)}

\* C3: whatever the interleaving of delete_availability and update_slot_status,
\* no slot whose status is booked is removed from the store.
C3_NoBookedSlotDeleted ==
    [][\A k \in DOMAIN slots \ DOMAIN slots' : slots[k].status # "booked"]_vars

\* C2: a create_availability that has passed its conflict check inserts its
\* window whatever the store holds by then: the insert does not look at the
\* windows other calls have inserted since the check.
C2_InsertAfterCheckIsUnconditional ==
    [][\A w \in Workers :
          (procs[w].pc = "create_insert" /\ procs'[w].pc # "create_insert")
              => /\ nextId' = nextId + 1
                 /\ DOMAIN windows' = DOMAIN windows \cup {nextId'}
                 /\ windows'[nextId'] =
                        AvailabilityDict(procs[w].provider_id, procs[w].data)]_vars

\* C2 witness: no call is running and the store holds two windows of one
\* provider and date with overlapping ranges, each with its whole slot batch:
\* two create calls have both passed the check and both returned success.
C2_Witness ==
    /\ \A w \in Workers : procs[w].pc = "idle"
    /\ \E i, j \in DOMAIN windows :
           /\ i # j
           /\ Conflict(windows[i], windows[j])
           /\ \A id \in {i, j} :
                  Cardinality(GetAppointmentSlots(slots, id))
                      = Len(GeneratedSlots(windows[id]))


\* the window of a request as instants, and its length in minutes
WindowStart(data) == Localize(data.date, data.start_time, data.timezone)
WindowEnd(data) == Localize(data.date, data.end_time, data.timezone)
\* the minutes that pass between the window's start and end instants
WindowMinutes(data) == WindowEnd(data) - WindowStart(data)

\* C5: for every window the generated slots are sorted by start time and
\* pairwise non-overlapping, each lasts exactly slot_duration minutes, the first
\* starts at start_time and none ends after end_time.  (Stated of the runs of
\* the generator that end within MaxIter iterations.)
C5_SlotsOrderedDisjointInside ==
    (pure.op = "generate" /\ ~pure.cut) =>
        LET b == pure.slots
            d == pure.data
        IN  /\ \A n \in 1..Len(b) :
                   /\ b[n].slot_end_time - b[n].slot_start_time = d.slot_duration
                   /\ b[n].slot_end_time <= WindowEnd(d)
            /\ \A n \in 1..(Len(b) - 1) :
                   /\ b[n].slot_start_time <= b[n + 1].slot_start_time
                   /\ b[n].slot_end_time <= b[n + 1].slot_start_time
            /\ Len(b) > 0 => b[1].slot_start_time = WindowStart(d)

\* C6: with slot_duration > 0 and break_duration >= 0 the number n of slots is
\* the largest with n*slot_duration + (n-1)*break_duration <= windowMinutes,
\* that is floor((windowMinutes + break_duration) / (slot_duration +
\* break_duration)); a slot ending exactly at end_time is emitted and a window
\* shorter than one slot gives none; 09:00-10:00 with slot 20, break 10 gives 2.
\* windowMinutes is the minutes between the window's start and end instants (on
\* the day a zone changes its offset this is not end_time - start_time).
C6_SlotCountMaximal ==
    (pure.op = "generate" /\ pure.data.slot_duration > 0
                          /\ pure.data.break_duration >= 0) =>
        LET d == pure.data
            n == Len(pure.slots)
            W == WindowMinutes(d)
        IN  /\ ~pure.cut
            /\ n * d.slot_duration + (n - 1) * d.break_duration <= W
            /\ (n + 1) * d.slot_duration + n * d.break_duration > W
            /\ n = (W + d.break_duration) \div (d.slot_duration + d.break_duration)
            /\ W < d.slot_duration => n = 0
            /\ (n > 0 /\ (W + d.break_duration) % (d.slot_duration + d.break_duration) = 0)
                   => pure.slots[n].slot_end_time = WindowEnd(d)
            /\ (d.start_time = <<9, 0>> /\ d.end_time = <<10, 0>>
                    /\ d.slot_duration = 20 /\ d.break_duration = 10) => n = 2

\* C6 witness: the generator ran on 09:00-10:00 in a zone other than UTC with
\* slot 20 and break 10 and emitted two slots.
C6_Witness ==
    /\ pure.op = "generate"
    /\ pure.data.start_time = <<9, 0>>
    /\ pure.data.end_time = <<10, 0>>
    /\ pure.data.slot_duration = 20
    /\ pure.data.break_duration = 10
    /\ pure.data.timezone = "America/New_York"
    /\ Len(pure.slots) = 2

\* C7: the overlap check gives the same answer with its two ranges exchanged,
\* and never reports two ranges of which one ends where the other starts.
C7_OverlapSymmetricTouchingFree ==
    (pure.op = "overlap") =>
        /\ pure.result = pure.exchanged
        /\ (time_to_minutes(pure.end1) = time_to_minutes(pure.start2)
               \/ time_to_minutes(pure.end2) = time_to_minutes(pure.start1))
              => ~pure.result

\* C7 witness: the check ran on two proper ranges that touch, 09:00-09:30 and
\* 09:30-10:00, and reported no overlap.
C7_Witness ==
    /\ pure.op = "overlap"
    /\ pure.start1 = <<9, 0>> /\ pure.end1 = <<9, 30>>
    /\ pure.start2 = <<9, 30>> /\ pure.end2 = <<10, 0>>
    /\ ~pure.result

-----------------------------------------------------------------------------
(* Failures, recurrence, validation and update *)

\* C11: a create_availability during which a repository call raised (for the
\* window, one of its slots or one of its recurring instances) returns a
\* failure, and one that returns success reports as slots_created the number
\* of slots stored for the new window.
C11_FailuresReturned ==
    (last.op = "create") =>
        /\ last.raised => ~last.ok
        /\ last.ok => last.slots_created
                          = Cardinality(GetAppointmentSlots(slots, last.availability_id))

\* the last call was a create_availability of a recurring request that got as
\* far as the recurrence expansion
SeriesCreated == last.op = "create" /\ last.ok /\ last.arg.is_recurring

\* the windows the last create_availability found stored (a failed one stores
\* nothing), and the instances its recurrence expansion inserted (ids are given
\* in order of insertion)
StoredBefore ==
    IF last.ok THEN {i \in DOMAIN windows : i < last.availability_id}
               ELSE DOMAIN windows
Instances ==
    IF last.ok THEN {i \in DOMAIN windows : i > last.availability_id} ELSE {}

\* the occurrences of the last call whose create_availability succeeded
Succeeded == {n \in 1..Len(last.occurrences) : last.occurrences[n].ok}

\* d2 is one period of the pattern after d1
OnePeriodApart(d1, d2, pattern) ==
    CASE pattern = "daily" -> d2 = d1 + 1
      [] pattern = "weekly" -> d2 = d1 + 7
      [] pattern = "monthly" ->
             LET a == Ymd(d1)
                 b == Ymd(d2)
             IN  /\ b[1] * 12 + b[2] = a[1] * 12 + a[2] + 1
                 /\ b[3] = Min(a[3], DaysInMonth(b[1], b[2]))

\* the request of claim C12 and the store it is made on: no stored window in
\* the way of the window or of an occurrence, no repository failure
WeeklyExample == Weekly(1, <<9, 0>>, <<9, 30>>, Jan22)
WeeklyExampleCase ==
    /\ last.op = "create"
    /\ last.provider_id = "p1"
    /\ last.arg = WeeklyExample
    /\ ~last.raised
    /\ \A i \in StoredBefore : \A d \in 1..Jan22 :
           ~Conflict(windows[i], [provider_id |-> "p1", date |-> d,
                                  start_time |-> last.arg.start_time,
                                  end_time |-> last.arg.end_time])

\* C12 as stated: the expansion of the window of 2024-01-01, weekly, until
\* 2024-01-22, on a store with no conflicting window, creates exactly 3
\* additional instances.
C12_ThreeInstances ==
    WeeklyExampleCase =>
        /\ last.ok
        /\ last.recurring_slots_created = 3
        /\ Cardinality(Instances) = 3

\* C12 amended: that expansion creates exactly 2 additional instances, dated
\* 2024-01-08 and 2024-01-15 (2024-01-22 is the end date, which is excluded).
C12_TwoInstances ==
    WeeklyExampleCase =>
        /\ last.ok
        /\ last.recurring_slots_created = 2
        /\ Cardinality(Instances) = 2
        /\ {windows[i].date : i \in Instances} = {Jan08, Jan08 + 7}

\* C12 witness: the example call returned, with its two instances stored.
C12_Witness ==
    /\ WeeklyExampleCase
    /\ last.ok
    /\ Cardinality(Instances) = 2

\* the date handed to create_availability before occurrence n
Previous(n) == IF n = 1 THEN last.arg.date ELSE last.occurrences[n - 1].date

\* C13: every instance the expansion created is dated strictly after the
\* original window and strictly before recurrence_end_date, and each occurrence
\* date is exactly one period of the pattern after the one before it (the first
\* one period after the window's date).
C13_InstancesInsideAndPeriodic ==
    SeriesCreated =>
        /\ \A n \in 1..Len(last.occurrences) :
               /\ last.arg.date < last.occurrences[n].date
               /\ last.occurrences[n].date < last.arg.recurrence_end_date
               /\ OnePeriodApart(Previous(n), last.occurrences[n].date,
                                 last.arg.recurrence_pattern)
        /\ {windows[i].date : i \in Instances}
               = {last.occurrences[n].date : n \in Succeeded}
        /\ \A i \in Instances :
               /\ last.arg.date < windows[i].date
               /\ windows[i].date < last.arg.recurrence_end_date

\* C13 witness: a monthly series started on the 31st returned with two
\* instances stored.
C13_Witness ==
    /\ SeriesCreated
    /\ last.arg.recurrence_pattern = "monthly"
    /\ Cardinality(Instances) = 2

\* C14: every occurrence is handed to create_availability with is_recurring
\* false and stored so; create_availability is never entered more than one
\* level deep, and the expansion inserts no window besides its occurrences.
C14_NoNestedExpansion ==
    SeriesCreated =>
        /\ \A n \in 1..Len(last.occurrences) : ~last.occurrences[n].is_recurring
        /\ \A i \in Instances : ~windows[i].is_recurring
        /\ last.depth <= 1
        /\ Cardinality(Instances) <= Len(last.occurrences)

\* C14 witness: a series returned after two nested calls, one level deep.
C14_Witness ==
    /\ SeriesCreated
    /\ last.depth = 1
    /\ Len(last.occurrences) = 2
    /\ Cardinality(Instances) = 2

\* C15: once the expansion has handed an occurrence to create_availability,
\* whatever fails on an occurrence, the call returns success, every occurrence
\* before the end date has been attempted, and recurring_slots_created is the
\* number of occurrences whose create succeeded (the instances stored).
C15_FailedOccurrenceSkipped ==
    (last.op = "create" /\ Len(last.occurrences) > 0) =>
        /\ last.ok
        /\ last.recurring_slots_created = Cardinality(Succeeded)
        /\ Cardinality(Instances) = Cardinality(Succeeded)
        /\ \A d \in 1..(last.arg.recurrence_end_date - 1) :
               ~OnePeriodApart(last.occurrences[Len(last.occurrences)].date, d,
                               last.arg.recurrence_pattern)

\* C15 witness: an occurrence failed and a later one was created.
C15_Witness ==
    /\ last.op = "create"
    /\ last.ok
    /\ \E n, m \in 1..Len(last.occurrences) :
           /\ n < m
           /\ ~last.occurrences[n].ok
           /\ last.occurrences[m].ok

\* C16: in a monthly series the n-th occurrence falls n calendar months after
\* the window, on the window's day of the month wherever the month has that
\* day (and on the last day of a shorter month).
C16_MonthlyKeepsDayOfMonth ==
    (SeriesCreated /\ last.arg.recurrence_pattern = "monthly") =>
        \A n \in 1..Len(last.occurrences) :
            LET a == Ymd(last.arg.date)
                b == Ymd(last.occurrences[n].date)
            IN  /\ b[1] * 12 + b[2] = a[1] * 12 + a[2] + n
                /\ b[3] = Min(a[3], DaysInMonth(b[1], b[2]))

\* C17: every stored window has start_time < end_time, is recurring exactly
\* when it has a recurrence pattern, and has a recurrence end date only when it
\* is recurring, the end date being after its date; the instances of a
\* recurrence and the windows update_availability has changed included.
C17_StoredWindowsValid ==
    \A i \in DOMAIN windows :
        /\ time_to_minutes(windows[i].start_time) < time_to_minutes(windows[i].end_time)
        /\ windows[i].is_recurring <=> windows[i].recurrence_pattern # NoneStr
        /\ windows[i].recurrence_end_date # NoDate
               => /\ windows[i].is_recurring
                  /\ windows[i].recurrence_end_date > windows[i].date

\* the request is one the spec has construction reject
InvalidWindow(data) ==
    \/ time_to_minutes(data.start_time) >= time_to_minutes(data.end_time)
    \/ data.slot_duration <= 0
    \/ (data.recurrence_pattern # NoneStr /\ ~data.is_recurring)
    \/ (data.recurrence_end_date # NoDate /\ ~data.is_recurring)
    \/ (data.recurrence_end_date # NoDate /\ data.recurrence_end_date <= data.date)

\* C18: a create request with start_time >= end_time, with slot_duration <= 0
\* or with inconsistent recurrence fields is rejected when it is constructed:
\* create_availability is never called with it and no window with
\* start_time >= end_time or slot_duration <= 0 is stored.
C18_InvalidRequestRejected ==
    /\ last.op = "create" => ~InvalidWindow(last.arg)
    /\ \A i \in DOMAIN windows :
           /\ time_to_minutes(windows[i].start_time) < time_to_minutes(windows[i].end_time)
           /\ windows[i].slot_duration > 0

C20_BookedSlotsUntouched ==
    [][(last'.op = "update") =>
          \A k \in DOMAIN slots :
              slots[k].status = "booked"
                  => (k \in DOMAIN slots' /\ slots'[k] = slots[k])]_vars

\* C20 witness: a patch of start_time and slot_duration succeeded on a window
\* that owns a booked slot.
C20_Witness ==
    /\ last.op = "update"
    /\ last.ok
    /\ "start_time" \in DOMAIN last.arg
    /\ \E k \in DOMAIN slots :
           /\ slots[k].availability_id = last.availability_id
           /\ slots[k].status = "booked"

-----------------------------------------------------------------------------
(* Slots after updates, bookings, reads and sign-in *)

\* the slots of the window whose status is available, as
\* <<slot_start_time, slot_end_time>>
AvailableRanges(sl, availability_id) ==
    {<<sl[k].slot_start_time, sl[k].slot_end_time>> :
         k \in {x \in GetAppointmentSlots(sl, availability_id) :
                    sl[x].status = "available"}}

\* the batch the generator emits for the stored window, as a set of ranges
GeneratedRanges(w) ==
    {<<GeneratedSlots(w)[n].slot_start_time, GeneratedSlots(w)[n].slot_end_time>> :
         n \in 1..Len(GeneratedSlots(w))}

TimeFields == {"start_time", "end_time", "slot_duration", "break_duration"}

\* C21: after a successful update_availability that changes start_time,
\* end_time, slot_duration or break_duration, the available slots of the window
\* are exactly those the generator emits for the new parameters: each lasts the
\* window's current slot_duration and lies inside its current time range.
C21_AvailableSlotsRegenerated ==
    (last.op = "update" /\ last.ok /\ DOMAIN last.arg \cap TimeFields # {}) =>
        LET w == windows[last.availability_id]
            av == AvailableRanges(slots, last.availability_id)
        IN  /\ \A r \in av : /\ r[2] - r[1] = w.slot_duration
                             /\ WindowStart(w) <= r[1]
                             /\ r[2] <= WindowEnd(w)
            /\ BookedSlots(slots, last.availability_id) = {}
                   => av = GeneratedRanges(w)

\* C22: in every reachable state a booked slot has a patient_id and a
\* booked_at, and booked_at is written only by a step that makes the slot's
\* status booked.
C22_BookedSlotHasPatientAndTime ==
    /\ [](\A k \in DOMAIN slots :
             slots[k].status = "booked"
                 => (slots[k].patient_id # NoneStr /\ slots[k].booked_at # 0))
    /\ [][\A k \in DOMAIN slots \cap DOMAIN slots' :
             slots'[k].booked_at # slots[k].booked_at
                 => (slots'[k].status = "booked" /\ slots[k].status # "booked")]_vars

\* C23: cancelled is a terminal window status: once a window's status is
\* cancelled, no later operation changes it to another value.
C23_CancelledIsTerminal ==
    [][\A i \in DOMAIN windows \cap DOMAIN windows' :
          windows[i].status = "cancelled" => windows'[i].status = "cancelled"]_vars

\* C24: in every reachable state each window's current_appointments is at
\* least 0 and at most max_appointments_per_slot times the number of slots the
\* window owns.
C24_AppointmentsWithinCapacity ==
    \A i \in DOMAIN windows :
        /\ windows[i].current_appointments >= 0
        /\ windows[i].current_appointments
               <= windows[i].max_appointments_per_slot
                      * Cardinality(GetAppointmentSlots(slots, i))

\* C25: a slot leaves the store only in the step of a delete_availability that
\* removes its owning window, and in every reachable state every stored slot's
\* availability_id is the id of a stored window.
C25_SlotsLiveWithTheirWindow ==
    /\ [](\A k \in DOMAIN slots : slots[k].availability_id \in DOMAIN windows)
    /\ [][\A k \in DOMAIN slots \ DOMAIN slots' :
             /\ last'.op = "delete"
             /\ last'.ok
             /\ last'.arg = slots[k].availability_id
             /\ slots[k].availability_id \in DOMAIN windows \ DOMAIN windows']_vars

\* C25 witness: a delete removed a window with its one slot, and the slot of
\* another window, whose status has been changed, is still stored.
C25_Witness ==
    /\ last.op = "delete"
    /\ last.ok
    /\ last.deleted_slots_count = 1
    /\ \E k \in DOMAIN slots :
           /\ slots[k].availability_id \in DOMAIN windows
           /\ slots[k].status = "cancelled"

\* the slots get_available_slots has to return for the last read: those of the
\* provider, available, starting on a date of the range
Expected ==
    {k \in DOMAIN slots :
        /\ slots[k].provider_id = last.provider_id
        /\ slots[k].status = "available"
        /\ \E d \in last.start_date..last.end_date :
               /\ DayStart(d) <= slots[k].slot_start_time
               /\ slots[k].slot_start_time < DayStart(d + 1)}

\* C26: after any sequence of creates, deletes and slot status updates,
\* get_available_slots returns exactly the stored slots of the provider that
\* are available and start in the date range, each once, ordered by
\* slot_start_time; it returns no booked, cancelled or blocked slot.
C26_AvailableSlotsOnly ==
    (last.op = "get_available_slots") =>
        /\ {last.slots[n].slot_id : n \in 1..Len(last.slots)} = Expected
        /\ Len(last.slots) = Cardinality(Expected)
        /\ last.total_count = Cardinality(Expected)
        /\ \A n \in 1..Len(last.slots) :
               /\ last.slots[n].status = "available"
               /\ last.slots[n].provider_id = last.provider_id
        /\ \A n \in 1..(Len(last.slots) - 1) :
               last.slots[n].slot_start_time <= last.slots[n + 1].slot_start_time

\* C26 witness: a read returned one slot of the provider while the store holds
\* a booked slot of the provider and an available slot of the provider that
\* starts after the range.
C26_Witness ==
    /\ last.op = "get_available_slots"
    /\ Len(last.slots) = 1
    /\ \E k \in DOMAIN slots :
           slots[k].provider_id = last.provider_id /\ slots[k].status = "booked"
    /\ \E k \in DOMAIN slots :
           /\ slots[k].provider_id = last.provider_id
           /\ slots[k].status = "available"
           /\ slots[k].slot_start_time > DayEnd(last.end_date)

\* the row registered under the email of the last sign-in, if there is one
Registered == {row \in pure.table : row.email = pure.login_data.email}
PasswordMatches(row) == row.password_hash = HashPassword(pure.login_data.password)

\* C27: authenticate_provider issues a token only when the email is
\* registered, the password is the registered one, the account is active and
\* its verification status is verified; an unknown email and a wrong password
\* both give INVALID_CREDENTIALS, an inactive account with the right password
\* ACCOUNT_DEACTIVATED, an active unverified account with the right password
\* ACCOUNT_NOT_VERIFIED.
C27_SignInOutcomes ==
    (pure.op = "authenticate") =>
        /\ pure.token =>
               \E row \in Registered : /\ PasswordMatches(row)
                                       /\ row.is_active
                                       /\ row.verification_status = "verified"
        /\ pure.token <=> pure.ok
        /\ (Registered = {} \/ \E row \in Registered : ~PasswordMatches(row))
               => pure.error_code = "INVALID_CREDENTIALS"
        /\ \A row \in Registered :
               /\ (PasswordMatches(row) /\ ~row.is_active)
                      => pure.error_code = "ACCOUNT_DEACTIVATED"
               /\ (PasswordMatches(row) /\ row.is_active
                                        /\ row.verification_status # "verified")
                      => pure.error_code = "ACCOUNT_NOT_VERIFIED"

\* C28: slot generation terminates for every request the schema accepts,
\* slot_duration <= 0 and negative break_duration included: every iteration of
\* the loop moves the cursor forward by a positive amount (the loop test then
\* fails after finitely many iterations).
C28_LoopAdvances ==
    [][(/\ pure.op = "loop"
        /\ pure'.op = "loop"
        /\ pure'.data = pure.data
        /\ pure'.slots_created = pure.slots_created + 1)
           => pure'.current_time > pure.current_time]_vars

\* C29: a slot booked for a patient keeps its patient_id for as long as it
\* stays booked: update_slot_status on a booked slot with another patient_id
\* does not overwrite the booking.
C29_BookingNotOverwritten ==
    [][\A k \in DOMAIN slots \cap DOMAIN slots' :
          (/\ slots[k].status = "booked"
           /\ slots[k].patient_id # NoneStr
           /\ slots'[k].status = "booked")
              => slots'[k].patient_id = slots[k].patient_id]_vars

\* C30: the conflict check of create_availability looks at every stored window
\* of the provider and date whatever its status: an overlapping window that is
\* cancelled or blocked makes the create fail with TIME_CONFLICT, and windows
\* of other providers or other dates never do.
C30_ConflictWhateverTheStatus ==
    (last.op = "create" /\ last.provider_id \in Providers) =>
        /\ ConflictingWithLast # {}
               => (~last.ok /\ last.error_code = "TIME_CONFLICT")
        /\ ConflictingWithLast = {} => last.ok
        /\ ~last.ok => /\ last.conflicting_availability_id \in DOMAIN windows
                       /\ windows[last.conflicting_availability_id].provider_id
                              = last.provider_id
                       /\ windows[last.conflicting_availability_id].date
                              = last.arg.date

\* C30 witness: a create failed with TIME_CONFLICT against a window that is
\* cancelled or blocked, while a window of another provider is stored.
C30_Witness ==
    /\ last.op = "create"
    /\ last.error_code = "TIME_CONFLICT"
    /\ windows[last.conflicting_availability_id].status \in {"cancelled", "blocked"}
    /\ \E j \in DOMAIN windows : windows[j].provider_id # last.provider_id

=============================================================================
